---- MODULE Spec2Model ----
(***************************************************************************)
(* Model of pkg/api/client.go: NewClient, httpClient.URL and               *)
(* httpClient.Do, the cancellation-aware request executor.  Each call of Do is one caller thread plus one        *)
(* auxiliary goroutine that reads the response body; the environment is    *)
(* the transport (round trip, body stream, abort on cancellation, client   *)
(* timeout), the server and the owner of the context.                      *)
(***************************************************************************)
EXTENDS Integers, Sequences, FiniteSets, TLC

\* ---- bounds -------------------------------------------------------------
MaxBody == 1           \* most body bytes a server sends in one response

\* Two Do calls run concurrently on the one client: interference, if there
\* were any, would be an effect of one call's step on another call's state.
Calls == {1, 2}
Byte  == {0}

\* ---- values -------------------------------------------------------------
NilResp == 0                 \* (*http.Response)(nil); call c's response is c
NilBody == << -1 >>          \* []byte(nil), distinct from every byte string
NoErr   == "nil"             \* error(nil)
Timeout == 10                \* hc.client.Timeout, in seconds (line 53)

\* the inputs of NewClient
NewCtxs       == {"ctxA", "ctxB"}          \* contexts of the caller
Transports    == {"nil", "base"}           \* base transports; "nil": the default
EndpointNames == {"foo", "bar"}
NilURL        == << >>                     \* (*url.URL)(nil)
NoResolver    == [e \in EndpointNames |-> NilURL]    \* a resolver not set
ResolverA     == [e \in EndpointNames |-> << "example.test", e >>]
ResolverB     == [e \in EndpointNames |-> << "api.test", e >>]
\* a Config: what Authorize does with the transport it is given, what
\* Endpoints returns
Configs ==
    [auth : {"pass", "wrap", "fail"}, endp : {"ok", "fail"},
     resolver : {ResolverA, ResolverB}]

\* the authorizing transport that wraps transport t
OAuth2(t) == IF t = "nil" THEN "oauth2(default)" ELSE "oauth2(base)"

\* Config.Authorize (line 35) of configuration cf applied to transport t
Authorize(cf, t) ==
    IF cf.auth = "fail" THEN [transport |-> "nil", err |-> "authErr"]
    ELSE IF cf.auth = "pass" THEN [transport |-> t, err |-> NoErr]
    ELSE [transport |-> OAuth2(t), err |-> NoErr]

\* Config.Endpoints (line 30) of configuration cf
Endpoints(cf) ==
    IF cf.endp = "fail" THEN [resolver |-> NoResolver, err |-> "endpErr"]
    ELSE [resolver |-> cf.resolver, err |-> NoErr]

VARIABLES
    ctx,         \* ctx[c]: the context argument: "nil", "active", "cancelled"
    reqCtx,      \* reqCtx[c]: TRUE when the request sent carries ctx
    pc,          \* pc[c]: position of the caller inside Do
    task,        \* task[c]: the read goroutine: "none","reading","finished","done"
    delivered,   \* delivered[c]: body bytes the server has sent so far
    eof,         \* eof[c]: the server has ended the body
    body,        \* body[c]: local variable body (line 91)
    err,         \* err[c]: local variable err (line 85), shared with the goroutine
    readRes,     \* readRes[c]: the error ReadAll returned: "none" until it returns
    closeCount,  \* closeCount[c]: calls of resp.Body.Close made by Do
    closeRes,    \* closeRes[c]: result of the explicit Close: "none","ok","fail"
    path,        \* path[c]: select case taken: "none","read","cancel"
    cancelAt,    \* cancelAt[c]: where the call stood when its context was cancelled
    ret,         \* ret[c]: what Do returned: [resp, body, err]
    via,         \* via[c]: the transport the request of call c was sent through
    cfg,         \* the Config given to NewClient
    newArgs,     \* the ctx and transport given to NewClient
    nc,          \* position of NewClient: "start","authorized","done","failed"
    hc,          \* the httpClient: [transport, timeout, endpoints]
    newRet,      \* what NewClient returned: [client, err]
    authCalls,   \* the arguments of every call of cfg.Authorize, in order
    endpCalls,   \* the number of calls of cfg.Endpoints
    urlRet       \* the last call of URL: [ep, url]

clientVars == << cfg, newArgs, nc, hc, newRet, authCalls, endpCalls, urlRet >>

vars == << ctx, reqCtx, pc, task, delivered, eof, body, err, readRes,
           closeCount, closeRes, path, cancelAt, ret, via, clientVars >>

NoRet == [resp |-> NilResp, body |-> NilBody, err |-> "none"]

NoURL == [ep |-> "none", url |-> NilURL]
NoNewRet == [client |-> "none", err |-> "none"]

\* line 52: hc := &httpClient{}
ZeroClient == [transport |-> "nil", timeout |-> 0, endpoints |-> NoResolver]

\* lines 52-67: the httpClient a NewClient(_, cf, t) that succeeds has built
BuiltClient(cf, t) ==
    [transport |-> Authorize(cf, t).transport, timeout |-> Timeout,
     endpoints |-> Endpoints(cf).resolver]

\* the calls of Do, none begun
InitCalls ==
    /\ ctx \in [Calls -> {"nil", "active"}]
    /\ reqCtx = [c \in Calls |-> FALSE]
    /\ pc = [c \in Calls |-> "start"]
    /\ task = [c \in Calls |-> "none"]
    /\ delivered = [c \in Calls |-> << >>]
    /\ eof = [c \in Calls |-> FALSE]
    /\ body = [c \in Calls |-> NilBody]
    /\ err = [c \in Calls |-> NoErr]
    /\ readRes = [c \in Calls |-> "none"]
    /\ closeCount = [c \in Calls |-> 0]
    /\ closeRes = [c \in Calls |-> "none"]
    /\ path = [c \in Calls |-> "none"]
    /\ cancelAt = [c \in Calls |-> "none"]
    /\ ret = [c \in Calls |-> NoRet]
    /\ via = [c \in Calls |-> "none"]

\* NewClient is about to be called
ClientInit ==
    /\ InitCalls
    /\ cfg \in Configs
    /\ newArgs \in [ctx : NewCtxs, transport : Transports]
    /\ nc = "start"
    /\ hc = ZeroClient
    /\ newRet = NoNewRet
    /\ authCalls = << >>
    /\ endpCalls = 0
    /\ urlRet = NoURL

\* the configuration and arguments of the client the concurrent calls use
UsedCfg  == [auth |-> "wrap", endp |-> "ok", resolver |-> ResolverA]
UsedArgs == [ctx |-> "ctxA", transport |-> "base"]

\* NewClient(ctxA, UsedCfg, base) has returned the client
Init ==
    /\ InitCalls
    /\ cfg = UsedCfg
    /\ newArgs = UsedArgs
    /\ nc = "done"
    /\ hc = BuiltClient(UsedCfg, UsedArgs.transport)
    /\ newRet = [client |-> "hc", err |-> NoErr]
    /\ authCalls = << UsedArgs >>
    /\ endpCalls = 1
    /\ urlRet = NoURL

\* ---- NewClient (lines 49-68) -------------------------------------------

\* Mutant: a nil transport is replaced before it is handed to Authorize.
NewClientAuthorize_DefaultTransport ==
    /\ nc = "start"
    /\ LET t == IF newArgs.transport = "nil" THEN "base"
                ELSE newArgs.transport
           r == Authorize(cfg, t) IN
         /\ authCalls' = Append(authCalls, [newArgs EXCEPT !.transport = t])
         /\ hc' = [hc EXCEPT !.timeout = Timeout, !.transport = r.transport]
         /\ IF r.err # NoErr
               THEN /\ newRet' = [client |-> "nil", err |-> r.err]
                    /\ nc' = "failed"
               ELSE /\ nc' = "authorized"
                    /\ UNCHANGED newRet
    /\ UNCHANGED << cfg, newArgs, endpCalls, urlRet >>
    /\ UNCHANGED << ctx, reqCtx, pc, task, delivered, eof, body, err, readRes,
                    closeCount, closeRes, path, cancelAt, ret, via >>

\* lines 50-59: the timeout is set, cfg.Authorize(ctx, transport) is called
\* and its transport stored; its error ends NewClient with (nil, err)
NewClientAuthorize ==
    /\ nc = "start"
    /\ authCalls' = Append(authCalls, newArgs)
    /\ LET r == Authorize(cfg, newArgs.transport) IN
         /\ hc' = [hc EXCEPT !.timeout = Timeout, !.transport = r.transport]
         /\ IF r.err # NoErr
               THEN /\ newRet' = [client |-> "nil", err |-> r.err]
                    /\ nc' = "failed"
               ELSE /\ nc' = "authorized"
                    /\ UNCHANGED newRet
    /\ UNCHANGED << cfg, newArgs, endpCalls, urlRet >>
    /\ UNCHANGED << ctx, reqCtx, pc, task, delivered, eof, body, err, readRes,
                    closeCount, closeRes, path, cancelAt, ret, via >>

\* Mutant: the error of Endpoints is not tested.
NewClientEndpoints_IgnoreErr ==
    /\ nc = "authorized"
    /\ endpCalls' = endpCalls + 1
    /\ hc' = [hc EXCEPT !.endpoints = Endpoints(cfg).resolver]
    /\ newRet' = [client |-> "hc", err |-> NoErr]
    /\ nc' = "done"
    /\ UNCHANGED << cfg, newArgs, authCalls, urlRet >>
    /\ UNCHANGED << ctx, reqCtx, pc, task, delivered, eof, body, err, readRes,
                    closeCount, closeRes, path, cancelAt, ret, via >>

\* lines 61-67: cfg.Endpoints() is called and its resolver stored; its error
\* ends NewClient with (nil, err), otherwise NewClient returns (hc, nil)
NewClientEndpoints ==
    /\ nc = "authorized"
    /\ endpCalls' = endpCalls + 1
    /\ LET r == Endpoints(cfg) IN
         /\ hc' = [hc EXCEPT !.endpoints = r.resolver]
         /\ IF r.err # NoErr
               THEN /\ newRet' = [client |-> "nil", err |-> r.err]
                    /\ nc' = "failed"
               ELSE /\ newRet' = [client |-> "hc", err |-> NoErr]
                    /\ nc' = "done"
    /\ UNCHANGED << cfg, newArgs, authCalls, urlRet >>
    /\ UNCHANGED << ctx, reqCtx, pc, task, delivered, eof, body, err, readRes,
                    closeCount, closeRes, path, cancelAt, ret, via >>

\* ---- httpClient.URL (lines 75-78) --------------------------------------

\* line 77: c.endpoints(ep)
URL(ep) == hc.endpoints[ep]

\* a caller holding the client calls URL(ep)
URLCall(ep) ==
    /\ nc = "done"
    /\ urlRet' = [ep |-> ep, url |-> URL(ep)]
    /\ UNCHANGED << cfg, newArgs, nc, hc, newRet, authCalls, endpCalls >>
    /\ UNCHANGED << ctx, reqCtx, pc, task, delivered, eof, body, err, readRes,
                    closeCount, closeRes, path, cancelAt, ret, via >>

\* Mutant: Do sends through http.DefaultClient.
Transport_Default == "nil"

\* line 85: c.client sends through the transport of the httpClient
Transport == hc.transport

\* ---- the caller: httpClient.Do ------------------------------------------

\* Mutant: the context is never bound to the request.
WithContext_Never(c) == FALSE

\* lines 82-84: the request carries the context only when ctx is not nil
WithContext(c) == ctx[c] # "nil"

\* Mutant: Close is deferred before the error of the round trip is tested.
DoRoundTripFail_Deferred(c) ==
    /\ nc = "done"
    /\ pc[c] = "start"
    /\ reqCtx' = [reqCtx EXCEPT ![c] = WithContext(c)]
    /\ via' = [via EXCEPT ![c] = Transport]
    /\ err' = [err EXCEPT ![c] = "transportErr"]
    /\ ret' = [ret EXCEPT ![c] =
                 [resp |-> NilResp, body |-> NilBody, err |-> "transportErr"]]
    /\ closeCount' = [closeCount EXCEPT ![c] = @ + 1]
    /\ pc' = [pc EXCEPT ![c] = "returned"]
    /\ UNCHANGED << readRes, ctx, task, delivered, eof, body, closeRes,
                    path, cancelAt >>
    /\ UNCHANGED clientVars

\* lines 85-88: c.client.Do fails; Do returns (nil, nil, err) at once
DoRoundTripFail(c) ==
    /\ nc = "done"
    /\ pc[c] = "start"
    /\ reqCtx' = [reqCtx EXCEPT ![c] = WithContext(c)]
    /\ via' = [via EXCEPT ![c] = Transport]
    /\ err' = [err EXCEPT ![c] = "transportErr"]
    /\ ret' = [ret EXCEPT ![c] =
                 [resp |-> NilResp, body |-> NilBody, err |-> "transportErr"]]
    /\ pc' = [pc EXCEPT ![c] = "returned"]
    /\ UNCHANGED << readRes, ctx, task, delivered, eof, body, closeCount, closeRes,
                    path, cancelAt >>
    /\ UNCHANGED clientVars

\* Mutant: Do turns the client timeout off when it has a context.
DoRoundTripOk_SetsTimeout(c) ==
    /\ nc = "done"
    /\ pc[c] = "start"
    /\ reqCtx' = [reqCtx EXCEPT ![c] = WithContext(c)]
    /\ hc' = [hc EXCEPT !.timeout = IF WithContext(c) THEN 0 ELSE @]
    /\ via' = [via EXCEPT ![c] = Transport]
    /\ err' = [err EXCEPT ![c] = NoErr]
    /\ body' = [body EXCEPT ![c] = NilBody]
    /\ task' = [task EXCEPT ![c] = "reading"]
    /\ pc' = [pc EXCEPT ![c] = "select"]
    /\ UNCHANGED << readRes, ctx, delivered, eof, closeCount, closeRes, path,
                    cancelAt, ret >>
    /\ UNCHANGED << cfg, newArgs, nc, newRet, authCalls, endpCalls, urlRet >>

\* lines 85-96: c.client.Do succeeds; Close is deferred, body is nil, the
\* done channel is made and the read goroutine is started
DoRoundTripOk(c) ==
    /\ nc = "done"
    /\ pc[c] = "start"
    /\ reqCtx' = [reqCtx EXCEPT ![c] = WithContext(c)]
    /\ via' = [via EXCEPT ![c] = Transport]
    /\ err' = [err EXCEPT ![c] = NoErr]
    /\ body' = [body EXCEPT ![c] = NilBody]
    /\ task' = [task EXCEPT ![c] = "reading"]
    /\ pc' = [pc EXCEPT ![c] = "select"]
    /\ UNCHANGED << readRes, ctx, delivered, eof, closeCount, closeRes, path,
                    cancelAt, ret >>
    /\ UNCHANGED clientVars

\* line 99 with ctx == nil: ctx.Done() is a method call on a nil interface;
\* Do panics, and the deferred Close (line 89) runs while the stack unwinds
SelectNilCtx(c) ==
    /\ pc[c] = "select"
    /\ ctx[c] = "nil"
    /\ closeCount' = [closeCount EXCEPT ![c] = @ + 1]
    /\ pc' = [pc EXCEPT ![c] = "panicked"]
    /\ UNCHANGED << via, readRes, ctx, reqCtx, task, delivered, eof, body, err, closeRes,
                    path, cancelAt, ret >>
    /\ UNCHANGED clientVars

\* line 99: case <-ctx.Done() is taken
SelectCtxDone(c) ==
    /\ pc[c] = "select"
    /\ ctx[c] = "cancelled"
    /\ path' = [path EXCEPT ![c] = "cancel"]
    /\ pc' = [pc EXCEPT ![c] = "waitDone"]
    /\ UNCHANGED << via, readRes, ctx, reqCtx, task, delivered, eof, body, err,
                    closeCount, closeRes, cancelAt, ret >>
    /\ UNCHANGED clientVars

\* Mutant: the select has a default case and goes on without done.
SelectDone_NoWait(c) ==
    /\ pc[c] = "select"
    /\ ctx[c] # "nil"
    /\ path' = [path EXCEPT ![c] = "read"]
    /\ pc' = [pc EXCEPT ![c] = "ret"]
    /\ UNCHANGED << via, readRes, ctx, reqCtx, task, delivered, eof, body, err,
                    closeCount, closeRes, cancelAt, ret >>
    /\ UNCHANGED clientVars

\* Mutant: the select waits for the cancellation only.
SelectDone_Never(c) ==
    /\ pc[c] = "select"
    /\ FALSE
    /\ UNCHANGED vars

\* line 105: case <-done is taken
SelectDone(c) ==
    /\ pc[c] = "select"
    /\ ctx[c] # "nil"
    /\ task[c] = "done"
    /\ path' = [path EXCEPT ![c] = "read"]
    /\ pc' = [pc EXCEPT ![c] = "ret"]
    /\ UNCHANGED << via, readRes, ctx, reqCtx, task, delivered, eof, body, err,
                    closeCount, closeRes, cancelAt, ret >>
    /\ UNCHANGED clientVars

\* Mutant: the cancellation path does not wait for the read goroutine.
AwaitDone_NoJoin(c) ==
    /\ pc[c] = "waitDone"
    /\ pc' = [pc EXCEPT ![c] = "close"]
    /\ UNCHANGED << via, readRes, ctx, reqCtx, task, delivered, eof, body, err,
                    closeCount, closeRes, path, cancelAt, ret >>
    /\ UNCHANGED clientVars

\* line 100: <-done on the cancellation path
AwaitDone(c) ==
    /\ pc[c] = "waitDone"
    /\ task[c] = "done"
    /\ pc' = [pc EXCEPT ![c] = "close"]
    /\ UNCHANGED << via, readRes, ctx, reqCtx, task, delivered, eof, body, err,
                    closeCount, closeRes, path, cancelAt, ret >>
    /\ UNCHANGED clientVars

\* Mutant: the error of the read is kept when there is one.
ExplicitClose_KeepReadErr(c) ==
    /\ pc[c] = "close"
    /\ \E ok \in BOOLEAN :
          /\ closeRes' = [closeRes EXCEPT ![c] = IF ok THEN "ok" ELSE "fail"]
          /\ err' = [err EXCEPT ![c] =
                       IF @ # NoErr THEN @
                       ELSE IF ok THEN "ctxErr" ELSE "closeErr"]
    /\ closeCount' = [closeCount EXCEPT ![c] = @ + 1]
    /\ pc' = [pc EXCEPT ![c] = "ret"]
    /\ UNCHANGED << via, readRes, ctx, reqCtx, task, delivered, eof, body, path,
                    cancelAt, ret >>
    /\ UNCHANGED clientVars

\* lines 101-104: err = resp.Body.Close(); if err == nil { err = ctx.Err() }
ExplicitClose(c) ==
    /\ pc[c] = "close"
    /\ \E ok \in BOOLEAN :
          /\ closeRes' = [closeRes EXCEPT ![c] = IF ok THEN "ok" ELSE "fail"]
          /\ err' = [err EXCEPT ![c] = IF ok THEN "ctxErr" ELSE "closeErr"]
    /\ closeCount' = [closeCount EXCEPT ![c] = @ + 1]
    /\ pc' = [pc EXCEPT ![c] = "ret"]
    /\ UNCHANGED << via, readRes, ctx, reqCtx, task, delivered, eof, body, path,
                    cancelAt, ret >>
    /\ UNCHANGED clientVars

\* Mutant: no body is handed back with an error.
Result_NoBodyOnError(c) ==
    [resp |-> c,
     body |-> IF err[c] = NoErr THEN body[c] ELSE NilBody,
     err |-> err[c]]

\* line 108: the values Do hands back
Result(c) == [resp |-> c, body |-> body[c], err |-> err[c]]

\* line 108, then the deferred resp.Body.Close() of line 89
Return(c) ==
    /\ pc[c] = "ret"
    /\ ret' = [ret EXCEPT ![c] = Result(c)]
    /\ closeCount' = [closeCount EXCEPT ![c] = @ + 1]
    /\ pc' = [pc EXCEPT ![c] = "returned"]
    /\ UNCHANGED << via, readRes, ctx, reqCtx, task, delivered, eof, body, err, closeRes,
                    path, cancelAt >>
    /\ UNCHANGED clientVars

\* ---- the read goroutine (lines 93-96) -----------------------------------

\* Mutant: the goroutine declares its own err (body, err := ...), so the
\* error of the read never reaches the caller's err.
ReadAll_ShadowErr(c, e) ==
    /\ body' = [body EXCEPT ![c] = delivered[c]]
    /\ readRes' = [readRes EXCEPT ![c] = e]
    /\ task' = [task EXCEPT ![c] = "finished"]
    /\ UNCHANGED << via, ctx, reqCtx, pc, delivered, eof, err, closeCount,
                    closeRes, path, cancelAt, ret >>
    /\ UNCHANGED clientVars

\* Mutant: body and err are fields of the client, shared by all calls.
ReadAll_SharedVars(c, e) ==
    /\ body' = [d \in Calls |-> delivered[c]]
    /\ err' = [d \in Calls |-> e]
    /\ readRes' = [readRes EXCEPT ![c] = e]
    /\ task' = [task EXCEPT ![c] = "finished"]
    /\ UNCHANGED << via, ctx, reqCtx, pc, delivered, eof, closeCount, closeRes,
                    path, cancelAt, ret >>
    /\ UNCHANGED clientVars

\* line 94: body, err = ioutil.ReadAll(resp.Body), ending with outcome e
ReadAll(c, e) ==
    /\ body' = [body EXCEPT ![c] = delivered[c]]
    /\ err' = [err EXCEPT ![c] = e]
    /\ readRes' = [readRes EXCEPT ![c] = e]
    /\ task' = [task EXCEPT ![c] = "finished"]
    /\ UNCHANGED << via, ctx, reqCtx, pc, delivered, eof, closeCount, closeRes,
                    path, cancelAt, ret >>
    /\ UNCHANGED clientVars

\* the body ends: ReadAll returns everything sent and a nil error
ReadEOF(c) ==
    /\ task[c] = "reading"
    /\ eof[c]
    /\ ReadAll(c, NoErr)

\* an I/O error ends the read: ReadAll returns what it has and the error
ReadFail(c) ==
    /\ task[c] = "reading"
    /\ ReadAll(c, "readErr")

\* the transport aborts the read of a request whose context is cancelled
ReadAbort(c) ==
    /\ task[c] = "reading"
    /\ reqCtx[c]
    /\ ctx[c] = "cancelled"
    /\ ReadAll(c, "ctxErr")

\* the client's fixed Timeout (line 53) expires during the read, which
\* then fails like any other read
ClientTimeout(c) ==
    /\ task[c] = "reading"
    /\ ReadAll(c, "readErr")

\* Mutant: the goroutine ends without closing done.
CloseDone_Missing(c) ==
    /\ task[c] = "finished"
    /\ UNCHANGED vars

\* line 95: close(done)
CloseDone(c) ==
    /\ task[c] = "finished"
    /\ task' = [task EXCEPT ![c] = "done"]
    /\ UNCHANGED << via, readRes, ctx, reqCtx, pc, delivered, eof, body, err, closeCount,
                    closeRes, path, cancelAt, ret >>
    /\ UNCHANGED clientVars

\* ---- the environment ----------------------------------------------------

\* the server sends one more body byte
ServerSend(c, b) ==
    /\ task[c] = "reading"
    /\ ~eof[c]
    /\ Len(delivered[c]) < MaxBody
    /\ delivered' = [delivered EXCEPT ![c] = Append(@, b)]
    /\ UNCHANGED << via, readRes, ctx, reqCtx, pc, task, eof, body, err, closeCount,
                    closeRes, path, cancelAt, ret >>
    /\ UNCHANGED clientVars

\* the server ends the body
ServerEOF(c) ==
    /\ task[c] = "reading"
    /\ ~eof[c]
    /\ eof' = [eof EXCEPT ![c] = TRUE]
    /\ UNCHANGED << via, readRes, ctx, reqCtx, pc, task, delivered, body, err, closeCount,
                    closeRes, path, cancelAt, ret >>
    /\ UNCHANGED clientVars

\* where call c stands at the moment its context is cancelled
CancelPoint(c) ==
    IF pc[c] = "start" THEN "preCall"
    ELSE IF eof[c] THEN "afterEOF"
    ELSE IF delivered[c] = << >> THEN "noBytes"
    ELSE "partial"

\* the owner of the context cancels it (or its deadline passes); once the
\* select of line 98 has chosen, Do consults the context no more
CtxCancel(c) ==
    /\ ctx[c] = "active"
    /\ pc[c] \in {"start", "select"}
    /\ ctx' = [ctx EXCEPT ![c] = "cancelled"]
    /\ cancelAt' = [cancelAt EXCEPT ![c] = CancelPoint(c)]
    /\ UNCHANGED << via, readRes, reqCtx, pc, task, delivered, eof, body, err, closeCount,
                    closeRes, path, ret >>
    /\ UNCHANGED clientVars

\* ---- specification ------------------------------------------------------

CallerStep(c) ==
    \/ SelectNilCtx(c)
    \/ SelectCtxDone(c)
    \/ SelectDone(c)
    \/ AwaitDone(c)
    \/ ExplicitClose(c)
    \/ Return(c)

Next ==
    \E c \in Calls :
        \/ DoRoundTripFail(c)
        \/ DoRoundTripOk(c)
        \/ CallerStep(c)
        \/ ReadEOF(c)
        \/ ReadFail(c)
        \/ ReadAbort(c)
        \/ ClientTimeout(c)
        \/ CloseDone(c)
        \/ ServerEOF(c)
        \/ CtxCancel(c)
        \/ \E b \in Byte : ServerSend(c, b)

Spec == Init /\ [][Next]_vars

\* the call of Do that runs on the client NewClient returns
ClientCalls == {1}

\* NewClient, then calls of URL and a call of Do on the client it returned
ClientNext ==
    \/ NewClientAuthorize
    \/ NewClientEndpoints
    \/ \E ep \in EndpointNames : URLCall(ep)
    \/ \E c \in ClientCalls :
        \/ DoRoundTripFail(c)
        \/ DoRoundTripOk(c)
        \/ CallerStep(c)
        \/ ReadEOF(c)
        \/ ReadFail(c)
        \/ ReadAbort(c)
        \/ ClientTimeout(c)
        \/ CloseDone(c)
        \/ ServerEOF(c)
        \/ CtxCancel(c)
        \/ \E b \in Byte : ServerSend(c, b)

ClientSpec == ClientInit /\ [][ClientNext]_vars

\* The Go scheduler runs every runnable goroutine; a read whose context is
\* cancelled is aborted by the transport, and a read at end of body returns.
\* Nothing is assumed about the client timeout or about I/O errors.
Fairness ==
    \A c \in Calls :
        /\ WF_vars(CallerStep(c))
        /\ WF_vars(CloseDone(c))
        /\ WF_vars(ReadAbort(c))
        /\ WF_vars(ReadEOF(c))

FairSpec == Init /\ [][Next]_vars /\ Fairness

TypeOK ==
    /\ ctx \in [Calls -> {"nil", "active", "cancelled"}]
    /\ pc \in [Calls -> {"start", "select", "waitDone", "close", "ret",
                         "returned", "panicked"}]
    /\ task \in [Calls -> {"none", "reading", "finished", "done"}]
    /\ \A c \in Calls : closeCount[c] \in 0..2
\* ---- claims -------------------------------------------------------------

Returned(c) == pc[c] = "returned"
RoundTripOk(c) == task[c] # "none"

\* C1: whenever Do has returned after a successful round trip, its read
\* goroutine has closed done, on the read path and on the cancellation path.
C1_ReadJoinedBeforeReturn ==
    \A c \in Calls :
        (Returned(c) /\ RoundTripOk(c)) =>
            /\ task[c] = "done"
            /\ path[c] \in {"read", "cancel"}

\* a call has returned on the cancellation path, its goroutine finished
C1_Witness ==
    \E c \in Calls : Returned(c) /\ path[c] = "cancel" /\ task[c] = "done"

\* C2 (as claimed): after a successful round trip Do has called Close exactly
\* once by the time it has returned, on either path.
C2_ClosedExactlyOnce ==
    \A c \in Calls : (Returned(c) /\ RoundTripOk(c)) => closeCount[c] = 1

\* C3 (as claimed): with a nil context and a successful round trip Do does not
\* crash at the select.
C3_NilCtxNoCrash ==
    \A c \in Calls : ctx[c] = "nil" => pc[c] # "panicked"

\* C4: on the cancellation path Do returns a non-nil error: ctx.Err() when the
\* explicit Close succeeded, the error of Close otherwise, whatever the read
\* goroutine's error was.
C4_CancelPathError ==
    \A c \in Calls :
        (Returned(c) /\ path[c] = "cancel") =>
            /\ ret[c].err # NoErr
            /\ closeRes[c] \in {"ok", "fail"}
            /\ closeRes[c] = "ok" => ret[c].err = "ctxErr"
            /\ closeRes[c] = "fail" => ret[c].err = "closeErr"

\* a call returned on the cancellation path after a failed read and a failed Close
C4_Witness ==
    \E c \in Calls :
        /\ Returned(c) /\ path[c] = "cancel"
        /\ closeRes[c] = "fail" /\ readRes[c] = "readErr"

\* C5 (as claimed): on the cancellation path Do reports failure and hands no
\* read bytes back.
C5_CancelPathDiscardsBody ==
    \A c \in Calls :
        (Returned(c) /\ path[c] = "cancel") =>
            /\ ret[c].err # NoErr
            /\ ret[c].body \in {NilBody, << >>}

\* C5 (amended): on the cancellation path Do reports failure, and hands back
\* the response and the bytes the read goroutine read together with the error.
C5_CancelPathReturnsBody ==
    \A c \in Calls :
        (Returned(c) /\ path[c] = "cancel") =>
            /\ ret[c].err # NoErr
            /\ ret[c].resp = c
            /\ ret[c].body = delivered[c]

\* a call returned on the cancellation path with a byte read
C5_Witness ==
    \E c \in Calls :
        /\ Returned(c) /\ path[c] = "cancel"
        /\ ret[c].body # NilBody /\ Len(ret[c].body) > 0

\* C6: when the round trip fails Do returns at once (nil, nil, transport
\* error); no goroutine is started and Close is not called.
C6_RoundTripFailure ==
    \A c \in Calls :
        err[c] = "transportErr" =>
            /\ Returned(c)
            /\ ret[c] = [resp |-> NilResp, body |-> NilBody,
                         err |-> "transportErr"]
            /\ task[c] = "none"
            /\ readRes[c] = "none"
            /\ closeCount[c] = 0

\* a round trip has failed
C6_Witness ==
    \E c \in Calls : err[c] = "transportErr" /\ Returned(c)

\* C7: on the read path Do returns the response, the bytes the goroutine read
\* and the goroutine's error; a body read to its end with the context never
\* cancelled comes back whole with a nil error.
C7_ReadPathResult ==
    \A c \in Calls :
        (Returned(c) /\ path[c] = "read") =>
            /\ ret[c].resp = c
            /\ ret[c].body = delivered[c]
            /\ ret[c].err = readRes[c]
            /\ (readRes[c] = NoErr /\ ctx[c] = "active") =>
                   (eof[c] /\ ret[c].err = NoErr)

\* one call returned a whole body, another a partial body and a read error
C7_Witness ==
    \E c, d \in Calls :
        /\ Returned(c) /\ path[c] = "read" /\ ctx[c] = "active"
        /\ ret[c].err = NoErr /\ Len(ret[c].body) = MaxBody
        /\ Returned(d) /\ path[d] = "read" /\ ret[d].err = "readErr"
\* what Do returns once it has taken the cancellation path
CancelFailure(c) ==
    /\ path[c] = "cancel"
    /\ ret[c].err = (IF closeRes[c] = "ok" THEN "ctxErr" ELSE "closeErr")

\* what Do returns once it has taken the read path
ReadResult(c) ==
    /\ path[c] = "read"
    /\ ret[c] = [resp |-> c, body |-> delivered[c], err |-> readRes[c]]

\* C8 (as claimed, the returned error): a call whose context was cancelled
\* after the round trip and before any body byte returns ctx.Err().
C8_EarlyCancelCtxErr ==
    \A c \in Calls :
        (Returned(c) /\ cancelAt[c] = "noBytes") => ret[c].err = "ctxErr"

\* C8 (amended): a call whose context is cancelled after the round trip and
\* before any body byte eventually returns, without the client timeout; it
\* returns ctx.Err() when it observes the cancellation first and the explicit
\* Close succeeds, the error of Close when that Close fails, and the read
\* goroutine's result when it observes the read completion first.
C8_EarlyCancelReturns ==
    /\ \A c \in Calls : (cancelAt[c] = "noBytes") ~> Returned(c)
    /\ [](\A c \in Calls :
            (Returned(c) /\ cancelAt[c] = "noBytes") =>
                (CancelFailure(c) \/ ReadResult(c)))

\* a call cancelled before any byte returned ctx.Err() with its read aborted
C8_Witness ==
    \E c \in Calls :
        /\ Returned(c) /\ cancelAt[c] = "noBytes"
        /\ readRes[c] = "ctxErr" /\ path[c] = "cancel"
        /\ ret[c].err = "ctxErr"

\* C9: a call whose context is cancelled when the body is fully delivered
\* and the read completion is not yet observed terminates, with the read
\* result or with the cancellation failure according to the select case taken.
C9_LateCancelTerminates ==
    /\ \A c \in Calls : (cancelAt[c] = "afterEOF") ~> Returned(c)
    /\ [](\A c \in Calls :
            (Returned(c) /\ cancelAt[c] = "afterEOF") =>
                /\ task[c] = "done"
                /\ ReadResult(c) \/ (CancelFailure(c) /\ ret[c].err # NoErr))

\* two calls cancelled after the end of their bodies: one returned the body,
\* the other the cancellation failure
C9_Witness ==
    \E c, d \in Calls :
        /\ Returned(c) /\ cancelAt[c] = "afterEOF" /\ path[c] = "read"
        /\ ret[c].err = NoErr
        /\ Returned(d) /\ cancelAt[d] = "afterEOF" /\ path[d] = "cancel"

\* the state of one call
CallState(c) ==
    << ctx[c], reqCtx[c], pc[c], task[c], delivered[c], eof[c], body[c],
       err[c], readRes[c], closeCount[c], closeRes[c], path[c], cancelAt[c],
       ret[c], via[c] >>

\* C10: concurrent calls do not interfere: a step of one call, of its read
\* goroutine, of its server or of its context changes the state of that call
\* only; cancelling one context leaves every other call's result and Close
\* count as they were.
C10_NoInterference ==
    [][\A c \in Calls :
          (CallState(c)' # CallState(c)) =>
              \A d \in Calls \ {c} : CallState(d)' = CallState(d)]_vars

\* one call waits on the cancellation path while another, not cancelled, is
\* still reading
C10_Witness ==
    \E c, d \in Calls :
        /\ c # d
        /\ pc[c] = "waitDone" /\ task[c] = "reading"
        /\ pc[d] = "select" /\ ctx[d] = "active" /\ task[d] = "reading"
\* C13: between starting the read goroutine and observing done the caller
\* neither writes body or err nor reads them into its result; it stands at
\* the statements that access them (lines 101-104, 108) only once the
\* goroutine has closed done.
C13_NoSharedAccessBeforeDone ==
    /\ [](\A c \in Calls : pc[c] \in {"close", "ret"} => task[c] = "done")
    /\ [][\A c \in Calls :
            (pc'[c] # pc[c] /\ task[c] \in {"reading", "finished"}) =>
                (body'[c] = body[c] /\ err'[c] = err[c] /\ ret'[c] = ret[c])]_vars

\* the caller has overwritten a read error on the cancellation path
C13_Witness ==
    \E c \in Calls :
        /\ pc[c] = "ret" /\ path[c] = "cancel"
        /\ readRes[c] = "readErr" /\ err[c] \in {"ctxErr", "closeErr"}

\* C14 (as claimed): every Close that Do makes, explicit or deferred, comes
\* after the read goroutine has closed done.
C14_CloseAfterDone ==
    [][\A c \in Calls :
          closeCount'[c] # closeCount[c] => task[c] = "done"]_vars

\* C15: a call with a non-nil context whose read goroutine has finished
\* eventually returns.
C15_ReturnsOnceReadDone ==
    \A c \in Calls :
        (ctx[c] # "nil" /\ task[c] \in {"finished", "done"}) ~> Returned(c)

\* a call whose context was never cancelled returned after a failed read
C15_Witness ==
    \E c \in Calls :
        /\ Returned(c) /\ ctx[c] = "active"
        /\ path[c] = "read" /\ readRes[c] = "readErr"
NewClientReturned == nc \in {"done", "failed"}

\* C11: NewClient returns (nil, the error of the configuration) when
\* Authorize fails or Endpoints fails, and a client with a nil error only
\* when both succeed.
C11_NewClientResult ==
    NewClientReturned =>
        /\ cfg.auth = "fail" => newRet = [client |-> "nil", err |-> "authErr"]
        /\ (cfg.auth # "fail" /\ cfg.endp = "fail") =>
               newRet = [client |-> "nil", err |-> "endpErr"]
        /\ newRet.client # "nil" =>
               /\ newRet = [client |-> "hc", err |-> NoErr]
               /\ cfg.auth # "fail" /\ cfg.endp = "ok"
               /\ nc = "done"

\* NewClient returned no client because Endpoints failed
C11_Witness ==
    /\ nc = "failed" /\ cfg.auth = "wrap" /\ cfg.endp = "fail"
    /\ newRet = [client |-> "nil", err |-> "endpErr"]

\* C12: once NewClient has returned the client, no step of URL or Do changes
\* its transport, its timeout or its resolver.
C12_ClientImmutable ==
    /\ [](nc = "done" => hc = BuiltClient(cfg, newArgs.transport))
    /\ [][nc = "done" => hc' = hc]_vars

\* URL has been called and a call of Do with a context has returned
C12_Witness ==
    /\ nc = "done" /\ urlRet # NoURL
    /\ \E c \in ClientCalls : Returned(c) /\ reqCtx[c] /\ path[c] = "cancel"
    /\ hc.timeout = Timeout

\* C16: NewClient calls Authorize once, with its own ctx and transport as
\* given (a nil transport included), and calls Endpoints at most once and
\* only after Authorize has succeeded.
C16_ConfigCalls ==
    /\ nc = "start" => (authCalls = << >> /\ endpCalls = 0)
    /\ nc # "start" => authCalls = << newArgs >>
    /\ nc = "authorized" => endpCalls = 0
    /\ endpCalls \in {0, 1}
    /\ endpCalls = 1 => (cfg.auth # "fail" /\ NewClientReturned)
    /\ (NewClientReturned /\ cfg.auth # "fail") => endpCalls = 1

\* Authorize was given a nil transport, failed, and Endpoints was not called
C16_Witness ==
    /\ nc = "failed" /\ cfg.auth = "fail" /\ endpCalls = 0
    /\ newArgs.transport = "nil" /\ authCalls[1].transport = "nil"

\* C17: on the client NewClient returned, URL(name) is what the resolver of
\* cfg.Endpoints returns for name, for every name, and Do sends its request
\* through the transport cfg.Authorize returned.
C17_ClientUsesConfig ==
    nc = "done" =>
        /\ \A ep \in EndpointNames : URL(ep) = cfg.resolver[ep]
        /\ urlRet # NoURL => urlRet.url = cfg.resolver[urlRet.ep]
        /\ \A c \in Calls :
              pc[c] # "start" =>
                  via[c] = Authorize(cfg, newArgs.transport).transport

\* URL("foo") gave the configured URL and Do went through the wrapped transport
C17_Witness ==
    /\ nc = "done" /\ cfg.resolver = ResolverA /\ cfg.auth = "wrap"
    /\ urlRet = [ep |-> "foo", url |-> << "example.test", "foo" >>]
    /\ \E c \in ClientCalls : Returned(c) /\ via[c] = "oauth2(base)"
====
